---- MODULE Spec2Model ----
(***************************************************************************)
(* Model of toxcore/dht/dht_node.rs (DhtNode: node status, ping_id store,  *)
(* replace_order comparator) and toxcore/dht/packet/crypto_data.rs         *)
(* (CryptoData / CryptoDataPayload codec).                                 *)
(*                                                                         *)
(* Time is a discrete monotonic clock `now`; Instant::elapsed() of an      *)
(* instant t is now - t and Durations are naturals in the same unit.       *)
(***************************************************************************)
EXTENDS Integers, Sequences, FiniteSets, TLC

\* ------------------------------------------------------------------ bounds
MaxTime == 3        \* the clock runs over 0..MaxTime
MaxTimeout == 1     \* Duration arguments range over 0..MaxTimeout
MaxId == 2          \* random_u64() ranges over 0..MaxId

Times == 0..MaxTime
Timeouts == 0..MaxTimeout
Ids == 0..MaxId
Addrs == {"127.0.0.1:33445"}
SelfPks == {<<0, 1>>}

VARIABLES
    now,                 \* Instant::now()
    saddr,               \* DhtNode.saddr
    pk,                  \* DhtNode.pk
    ping_hash,           \* DhtNode.ping_hash : HashMap<u64, Instant>
    last_resp_time,      \* DhtNode.last_resp_time
    last_ping_req_time,  \* DhtNode.last_ping_req_time
    pc,                  \* "idle", or "generate_ping_id" while its loop runs
    last,                \* the last completed call: op, arguments, result,
                         \* the clock value it ran at, the DhtNode it started
                         \* from, and whether the ping_id had already been
                         \* checked since it was issued
    called,              \* ids passed to check_ping_id since their issuance
    okCount,             \* per id: check_ping_id -> true since its issuance
    base,                \* the PublicKey replace_order is called on (&self)
    nodes,               \* the DhtNodes a bucket hands to replace_order
    order,               \* the replace_order call made in the current state
    sent,                \* the arguments of CryptoData::new
    crypto_data,         \* the CryptoData it returned
    got,                 \* the last get_payload or from_bytes: arguments
                         \* and result
    wire                 \* the bytes CryptoData::to_bytes wrote for
                         \* crypto_data, or bytes that arrived from the net

nodeVars == <<saddr, pk, ping_hash, last_resp_time, last_ping_req_time,
              pc, last, called, okCount>>
cmpVars == <<base, nodes, order>>
codecVars == <<sent, crypto_data, got, wire>>
vars == <<now, nodeVars, cmpVars, codecVars>>

\* ----------------------------------------------------------------- helpers
\* HashMap as a function from its key set
EmptyMap == [k \in {} |-> 0]

Remove(m, k) == [x \in (DOMAIN m) \ {k} |-> m[x]]

Insert(m, k, v) == [x \in (DOMAIN m) \cup {k} |-> IF x = k THEN v ELSE m[x]]

\* Instant::elapsed()
Elapsed(t) == now - t

\* the DhtNode the calls below act on
Self == [saddr |-> saddr, pk |-> pk, ping_hash |-> ping_hash,
         last_resp_time |-> last_resp_time,
         last_ping_req_time |-> last_ping_req_time]

\* record of a completed call
Call(op, ping_id, timeout, ret, replay) ==
    [op |-> op, ping_id |-> ping_id, timeout |-> timeout, ret |-> ret,
     at |-> now, before |-> Self, replay |-> replay]

\* values of the variables a specification does not use
NodeUnused ==
    /\ saddr = "127.0.0.1:33445"
    /\ pk = <<0, 0>>
    /\ ping_hash = EmptyMap
    /\ last_resp_time = 0
    /\ last_ping_req_time = 0
    /\ pc = "idle"
    /\ last = [op |-> "none"]
    /\ called = {}
    /\ okCount = [i \in Ids |-> 0]

CmpUnused ==
    /\ base = <<0, 0>>
    /\ nodes = <<>>
    /\ order = [op |-> "none"]

CodecUnused ==
    /\ sent = <<>>
    /\ crypto_data = [op |-> "none"]
    /\ got = [op |-> "none"]
    /\ wire = [op |-> "none"]

\* --------------------------------------------------------------- DhtNode
\* DhtNode::new : empty ping_hash, both timestamps Instant::now()
Init ==
    /\ now = 0
    /\ saddr \in Addrs
    /\ pk \in SelfPks
    /\ ping_hash = EmptyMap
    /\ last_resp_time = now
    /\ last_ping_req_time = now
    /\ pc = "idle"
    /\ last = Call("new", 0, 0, FALSE, FALSE)
    /\ called = {}
    /\ okCount = [i \in Ids |-> 0]
    /\ CmpUnused
    /\ CodecUnused

\* the monotonic clock advances
Tick ==
    /\ now < MaxTime
    /\ now' = now + 1
    /\ UNCHANGED <<nodeVars, cmpVars, codecVars>>

\* calc_status with the comparison weakened to >=
calc_status_ge(self, bad_node_timeout) ==
    IF Elapsed(self.last_resp_time) >= bad_node_timeout THEN "Bad" ELSE "Good"

\* calc_status with the comparison turned round
calc_status_lt(self, bad_node_timeout) ==
    IF Elapsed(self.last_resp_time) < bad_node_timeout THEN "Bad" ELSE "Good"

\* DhtNode::calc_status
calc_status(self, bad_node_timeout) ==
    IF Elapsed(self.last_resp_time) > bad_node_timeout THEN "Bad" ELSE "Good"

\* a call of calc_status on the node
CalcStatus ==
    /\ pc = "idle"
    /\ \E bad_node_timeout \in Timeouts :
         last' = Call("calc_status", 0, bad_node_timeout,
                      calc_status(Self, bad_node_timeout), FALSE)
    /\ UNCHANGED <<now, saddr, pk, ping_hash, last_resp_time,
                   last_ping_req_time, pc, called, okCount>>
    /\ UNCHANGED <<cmpVars, codecVars>>

\* generate_ping_id that asks is_empty() instead of contains_key()
generate_ping_id_empty(hash, ping_id) ==
    ping_id # 0 /\ hash = EmptyMap

\* generate_ping_id without the contains_key test
generate_ping_id_nokey(hash, ping_id) ==
    ping_id # 0

\* DhtNode::generate_ping_id : the loop's exit condition on one draw
generate_ping_id(hash, ping_id) ==
    ping_id # 0 /\ ping_id \notin DOMAIN hash

\* insert_new_ping_id that also stamps last_ping_req_time on every draw
insert_new_ping_id_touch ==
    /\ pc \in {"idle", "generate_ping_id"}
    /\ \E ping_id \in Ids :
         IF generate_ping_id(ping_hash, ping_id)
         THEN /\ ping_hash' = Insert(ping_hash, ping_id, now)
              /\ pc' = "idle"
              /\ last' = Call("insert_new_ping_id", ping_id, 0, ping_id,
                               FALSE)
              /\ called' = called \ {ping_id}
              /\ okCount' = [okCount EXCEPT ![ping_id] = 0]
         ELSE /\ pc' = "generate_ping_id"
              /\ UNCHANGED <<ping_hash, last, called, okCount>>
    /\ last_ping_req_time' = now
    /\ UNCHANGED <<now, saddr, pk, last_resp_time>>
    /\ UNCHANGED <<cmpVars, codecVars>>

\* DhtNode::insert_new_ping_id : one draw of random_u64() in the loop of
\* generate_ping_id; a rejected draw stays in the loop, an accepted one is
\* inserted with Instant::now() and returned
insert_new_ping_id ==
    /\ pc \in {"idle", "generate_ping_id"}
    /\ \E ping_id \in Ids :
         IF generate_ping_id(ping_hash, ping_id)
         THEN /\ ping_hash' = Insert(ping_hash, ping_id, now)
              /\ pc' = "idle"
              /\ last' = Call("insert_new_ping_id", ping_id, 0, ping_id,
                               FALSE)
              /\ called' = called \ {ping_id}
              /\ okCount' = [okCount EXCEPT ![ping_id] = 0]
         ELSE /\ pc' = "generate_ping_id"
              /\ UNCHANGED <<ping_hash, last, called, okCount>>
    /\ UNCHANGED <<now, saddr, pk, last_resp_time, last_ping_req_time>>
    /\ UNCHANGED <<cmpVars, codecVars>>

\* retain that drops every entry
retain_clear(hash, timeout) ==
    EmptyMap

\* retain with a strict comparison
retain_lt(hash, timeout) ==
    [k \in {x \in DOMAIN hash : Elapsed(hash[x]) < timeout} |-> hash[k]]

\* the retain predicate of clear_timedout_pings
retain(hash, timeout) ==
    [k \in {x \in DOMAIN hash : Elapsed(hash[x]) <= timeout} |-> hash[k]]

\* DhtNode::clear_timedout_pings
clear_timedout_pings ==
    /\ pc = "idle"
    /\ \E timeout \in Timeouts :
         /\ ping_hash' = retain(ping_hash, timeout)
         /\ last' = Call("clear_timedout_pings", 0, timeout, FALSE, FALSE)
    /\ UNCHANGED <<now, saddr, pk, last_resp_time, last_ping_req_time,
                   pc, called, okCount>>
    /\ UNCHANGED <<cmpVars, codecVars>>

\* check_ping_id whose early return for ping_id 0 answers true
check_ping_id_ret_zero(hash, ping_id, timeout) ==
    IF ping_id = 0 THEN TRUE
    ELSE IF ping_id \notin DOMAIN hash THEN FALSE
    ELSE IF Elapsed(hash[ping_id]) > timeout THEN FALSE
    ELSE TRUE

\* check_ping_id with the timeout comparison weakened to >=
check_ping_id_ret_ge(hash, ping_id, timeout) ==
    IF ping_id = 0 THEN FALSE
    ELSE IF ping_id \notin DOMAIN hash THEN FALSE
    ELSE IF Elapsed(hash[ping_id]) >= timeout THEN FALSE
    ELSE TRUE

\* result of check_ping_id on the map `hash`
check_ping_id_ret(hash, ping_id, timeout) ==
    IF ping_id = 0 THEN FALSE
    ELSE IF ping_id \notin DOMAIN hash THEN FALSE
    ELSE IF Elapsed(hash[ping_id]) > timeout THEN FALSE
    ELSE TRUE

\* check_ping_id that clears the map instead of removing one entry
check_ping_id_hash_clear(hash, ping_id) ==
    IF ping_id = 0 THEN hash ELSE EmptyMap

\* check_ping_id that looks the id up with get() and never removes it
check_ping_id_hash_get(hash, ping_id) ==
    hash

\* map left by check_ping_id on the map `hash`
check_ping_id_hash(hash, ping_id) ==
    IF ping_id = 0 THEN hash ELSE Remove(hash, ping_id)

\* DhtNode::check_ping_id
check_ping_id ==
    /\ pc = "idle"
    /\ \E ping_id \in Ids, timeout \in Timeouts :
         LET ret == check_ping_id_ret(ping_hash, ping_id, timeout)
             \* history: the call follows clear_timedout_pings(timeout)
             \* at the same clock value, and the map before that call
             after_clear == /\ last.op = "clear_timedout_pings"
                            /\ last.at = now
                            /\ last.timeout = timeout
             uncleared == IF after_clear THEN last.before.ping_hash
                          ELSE ping_hash
         IN
         /\ ping_hash' = check_ping_id_hash(ping_hash, ping_id)
         /\ last' = Call("check_ping_id", ping_id, timeout, ret,
                          ping_id \in called)
                       @@ [after_clear |-> after_clear,
                           uncleared |-> uncleared]
         /\ called' = called \cup {ping_id}
         /\ okCount' = [okCount EXCEPT
                          ![ping_id] = IF ret THEN @ + 1 ELSE @]
    /\ UNCHANGED <<now, saddr, pk, last_resp_time, last_ping_req_time, pc>>
    /\ UNCHANGED <<cmpVars, codecVars>>

\* the owner of the node records a confirmed response: after check_ping_id
\* returned true it sets the public field last_resp_time
update_last_resp_time ==
    /\ pc = "idle"
    /\ last.op = "check_ping_id" /\ last.ret = TRUE
    /\ last_resp_time' = now
    /\ last' = Call("update_last_resp_time", 0, 0, FALSE, FALSE)
    /\ UNCHANGED <<now, saddr, pk, ping_hash, last_ping_req_time,
                   pc, called, okCount>>
    /\ UNCHANGED <<cmpVars, codecVars>>

Next ==
    \/ Tick
    \/ CalcStatus
    \/ insert_new_ping_id
    \/ clear_timedout_pings
    \/ check_ping_id
    \/ update_last_resp_time

Spec == Init /\ [][Next]_vars

\* the loop of generate_ping_id under a fair random_u64(): while the loop
\* runs and some draw would be accepted, an accepted draw comes eventually
AcceptedDraw ==
    /\ pc = "generate_ping_id"
    /\ insert_new_ping_id
    /\ pc' = "idle"

\* the operations that fill and empty ping_hash; with the clock they reach
\* every map, and none of the others can run while the loop does
NextFair ==
    \/ Tick
    \/ insert_new_ping_id
    \/ clear_timedout_pings

SpecFair == Init /\ [][NextFair]_vars /\ WF_vars(AcceptedDraw)

TypeOK ==
    /\ now \in Times
    /\ DOMAIN ping_hash \subseteq Ids
    /\ \A k \in DOMAIN ping_hash : ping_hash[k] \in 0..now
    /\ last_resp_time \in 0..now
    /\ pc \in {"idle", "generate_ping_id"}
\* ---------------------------------------------------------- replace_order
\* sample PublicKeys (byte arrays); XOR with a base of <<0, 3>> reverses the
\* numeric order of <<0, 1>> and <<0, 2>>
PKs == {<<0, 1>>, <<0, 2>>, <<1, 0>>}
BasePks == {<<0, 0>>, <<0, 3>>}
CmpSlots == {1, 2, 3}

\* u8 ^ u8
RECURSIVE Xor(_, _)
Xor(a, b) ==
    IF a = 0 /\ b = 0 THEN 0
    ELSE (((a % 2) + (b % 2)) % 2) + 2 * Xor(a \div 2, b \div 2)

\* Ord::cmp on integers
Cmp(x, y) == IF x < y THEN "Less" ELSE IF x > y THEN "Greater" ELSE "Equal"

\* Distance for PublicKey, from byte i on: the first byte where pk1 and pk2
\* differ decides, by the XOR of each with the same byte of own
RECURSIVE distance_from(_, _, _, _)
distance_from(own, pk1, pk2, i) ==
    IF i > Len(own) THEN "Equal"
    ELSE IF pk1[i] # pk2[i]
         THEN Cmp(Xor(own[i], pk1[i]), Xor(own[i], pk2[i]))
         ELSE distance_from(own, pk1, pk2, i + 1)

\* PublicKey::distance
distance(own, pk1, pk2) == distance_from(own, pk1, pk2, 1)

\* DhtNode::new(pn) at the current clock value
DhtNode_new(pn_pk, pn_saddr) ==
    [saddr |-> pn_saddr, pk |-> pn_pk, ping_hash |-> EmptyMap,
     last_resp_time |-> now, last_ping_req_time |-> now]

\* replace_order that answers Greater for a Good node1 and a Bad node2
replace_order_swapped(own, node1, node2, bad_node_timeout) ==
    IF calc_status(node1, bad_node_timeout) = "Good"
    THEN IF calc_status(node2, bad_node_timeout) = "Good"
         THEN distance(own, node1.pk, node2.pk)
         ELSE "Greater"
    ELSE IF calc_status(node2, bad_node_timeout) = "Good"
         THEN "Less"
         ELSE distance(own, node1.pk, node2.pk)

\* replace_order that answers Less in both mixed cases
replace_order_less(own, node1, node2, bad_node_timeout) ==
    IF calc_status(node1, bad_node_timeout) = "Good"
    THEN IF calc_status(node2, bad_node_timeout) = "Good"
         THEN distance(own, node1.pk, node2.pk)
         ELSE "Less"
    ELSE IF calc_status(node2, bad_node_timeout) = "Good"
         THEN "Less"
         ELSE distance(own, node1.pk, node2.pk)

\* impl ReplaceOrder for PublicKey
replace_order(own, node1, node2, bad_node_timeout) ==
    IF calc_status(node1, bad_node_timeout) = "Good"
    THEN IF calc_status(node2, bad_node_timeout) = "Good"
         THEN distance(own, node1.pk, node2.pk)      \* Good, Good
         ELSE "Less"                                 \* Good, Bad
    ELSE IF calc_status(node2, bad_node_timeout) = "Good"
         THEN "Greater"                              \* Bad, Good
         ELSE distance(own, node1.pk, node2.pk)      \* Bad, Bad

\* three DhtNodes created at clock value 0, compared from `base`
InitCmp ==
    /\ now = 0
    /\ NodeUnused
    /\ CodecUnused
    /\ base \in BasePks
    /\ nodes \in [CmpSlots -> {DhtNode_new(k, a) : k \in PKs, a \in Addrs}]
    /\ order = [op |-> "none"]

\* the clock advances; a comparison result belongs to the clock value it
\* was computed at
CmpTick ==
    /\ now < MaxTime
    /\ now' = now + 1
    /\ order' = [op |-> "none"]
    /\ UNCHANGED <<base, nodes>>
    /\ UNCHANGED <<nodeVars, codecVars>>

\* the bucket puts a freshly created DhtNode into a slot
CmpNew ==
    /\ \E i \in CmpSlots, k \in PKs, a \in Addrs :
         nodes' = [nodes EXCEPT ![i] = DhtNode_new(k, a)]
    /\ order' = [op |-> "none"]
    /\ UNCHANGED <<now, base>>
    /\ UNCHANGED <<nodeVars, codecVars>>

\* a call base.replace_order(&nodes[1], &nodes[2], bad_node_timeout); any
\* two DhtNodes can sit in slots 1 and 2
ReplaceOrder ==
    /\ \E bad_node_timeout \in Timeouts :
         order' = [op |-> "replace_order", timeout |-> bad_node_timeout,
                   ret |-> replace_order(base, nodes[1], nodes[2],
                                         bad_node_timeout)]
    /\ UNCHANGED <<now, base, nodes>>
    /\ UNCHANGED <<nodeVars, codecVars>>

NextCmp ==
    \/ CmpTick
    \/ CmpNew
    \/ ReplaceOrder

SpecCmp == InitCmp /\ [][NextCmp]_vars

\* ------------------------------------------------- CryptoData / payload
MAX_CRYPTO_PACKET_SIZE == 1400
MACBYTES == 16
NONCEBYTES == 24

\* sample inputs: u32 fields (up to the largest integer TLC represents,
\* 2^31 - 1), payload data, nonces, precomputed keys
U32s == {0, 12345, 54321, 2147483647}
Datas == {<<>>, <<42>>, <<0, 255>>, <<1, 2, 3>>}
\* the payload of the tests, the largest payload that fits the buffer of
\* CryptoData::new, and the smallest that does not
TestPayload ==
    [buffer_start |-> 12345, packet_number |-> 54321,
     data |-> [i \in 1..123 |-> 42]]
FullPayload ==
    [buffer_start |-> 2147483647, packet_number |-> 1,
     data |-> [i \in 1..(MAX_CRYPTO_PACKET_SIZE - MACBYTES - 3 - 8) |-> 42]]
OverPayload ==
    [buffer_start |-> 1, packet_number |-> 2,
     data |-> [i \in 1..(MAX_CRYPTO_PACKET_SIZE - MACBYTES - 3 - 7) |-> 42]]
Payloads ==
    [buffer_start : U32s, packet_number : U32s, data : Datas]
        \cup {TestPayload, FullPayload, OverPayload}
\* a nonce with first byte h and last two bytes a, b
NonceOf(h, a, b) ==
    [i \in 1..NONCEBYTES |->
        IF i = 1 THEN h
        ELSE IF i = NONCEBYTES - 1 THEN a
        ELSE IF i = NONCEBYTES THEN b ELSE 0]
Nonces ==
    {NonceOf(h, ab[1], ab[2]) : h \in {0, 1}, ab \in {<<0, 42>>, <<1, 0>>}}
Keys == {11, 22}

\* gen_be_u32! that writes the least significant byte first
gen_le_u32(v) ==
    << v % 256, (v \div 256) % 256,
       (v \div 65536) % 256, (v \div 16777216) % 256 >>

\* gen_be_u32! : four bytes, most significant first
gen_be_u32(v) ==
    << (v \div 16777216) % 256, (v \div 65536) % 256,
       (v \div 256) % 256, v % 256 >>

\* nom be_u32 on the four bytes of b from index i
be_u32(b, i) ==
    ((b[i] * 256 + b[i + 1]) * 256 + b[i + 2]) * 256 + b[i + 3]

\* impl ToBytes for CryptoDataPayload, into a buffer of buf_len bytes
CryptoDataPayload_to_bytes(payload, buf_len) ==
    LET bytes == gen_be_u32(payload.buffer_start)
                   \o gen_be_u32(payload.packet_number)
                   \o payload.data
    IN  IF Len(bytes) > buf_len
        THEN [ok |-> FALSE, err |-> "BufferTooSmall"]
        ELSE [ok |-> TRUE, bytes |-> bytes]

\* CryptoDataPayload::from_bytes that reads both fields at offset 0
CryptoDataPayload_from_bytes_same(b) ==
    IF Len(b) < 8
    THEN [ok |-> FALSE, err |-> "Incomplete"]
    ELSE [ok |-> TRUE,
          payload |-> [buffer_start |-> be_u32(b, 1),
                       packet_number |-> be_u32(b, 1),
                       data |-> SubSeq(b, 9, Len(b))]]

\* CryptoDataPayload::from_bytes that wants at least one byte of data
CryptoDataPayload_from_bytes_nonempty(b) ==
    IF Len(b) <= 8
    THEN [ok |-> FALSE, err |-> "Incomplete"]
    ELSE [ok |-> TRUE,
          payload |-> [buffer_start |-> be_u32(b, 1),
                       packet_number |-> be_u32(b, 5),
                       data |-> SubSeq(b, 9, Len(b))]]

\* impl FromBytes for CryptoDataPayload
CryptoDataPayload_from_bytes(b) ==
    IF Len(b) < 8
    THEN [ok |-> FALSE, err |-> "Incomplete"]
    ELSE [ok |-> TRUE,
          payload |-> [buffer_start |-> be_u32(b, 1),
                       packet_number |-> be_u32(b, 5),
                       data |-> SubSeq(b, 9, Len(b))]]

\* sum of the bytes s[lo..hi]
RECURSIVE SumBytes(_, _, _)
SumBytes(s, lo, hi) ==
    IF lo > hi THEN 0
    ELSE IF lo = hi THEN s[lo]
    ELSE LET mid == (lo + hi) \div 2
         IN  SumBytes(s, lo, mid) + SumBytes(s, mid + 1, hi)

\* the key stream byte for position i under (key, nonce)
Stream(key, nonce, i) ==
    (key + nonce[1] + nonce[NONCEBYTES - 1] + nonce[NONCEBYTES] + i) % 256

\* the MACBYTES authenticator of the encrypted bytes c under (key, nonce)
Mac(key, nonce, c) ==
    [j \in 1..MACBYTES |->
        (key * j + nonce[j] + 3 * nonce[j + NONCEBYTES - MACBYTES]
           + Len(c) + SumBytes(c, 1, Len(c))) % 256]

\* seal_precomputed : authenticator followed by the encrypted bytes
seal_precomputed(plain, nonce, key) ==
    LET c == [i \in 1..Len(plain) |->
                (plain[i] + Stream(key, nonce, i)) % 256]
    IN  Mac(key, nonce, c) \o c

\* open_precomputed : Err(()) unless the authenticator matches
open_precomputed(c, nonce, key) ==
    IF Len(c) < MACBYTES THEN [ok |-> FALSE]
    ELSE LET mac == SubSeq(c, 1, MACBYTES)
             body == SubSeq(c, MACBYTES + 1, Len(c))
         IN  IF mac # Mac(key, nonce, body) THEN [ok |-> FALSE]
             ELSE [ok |-> TRUE,
                   plain |-> [i \in 1..Len(body) |->
                                (body[i] + 256 - Stream(key, nonce, i))
                                   % 256]]

\* nonce_last_bytes read as a little-endian number
nonce_last_bytes_le(nonce) ==
    nonce[NONCEBYTES] * 256 + nonce[NONCEBYTES - 1]

\* CryptoData::nonce_last_bytes
nonce_last_bytes(nonce) ==
    nonce[NONCEBYTES - 1] * 256 + nonce[NONCEBYTES]

\* CryptoData::new ; the unwrap() panics when the payload does not fit buf
CryptoData_new(shared_secret, nonce, payload) ==
    LET r == CryptoDataPayload_to_bytes(
                 payload, MAX_CRYPTO_PACKET_SIZE - MACBYTES - 3)
    IN  IF ~ r.ok THEN [op |-> "panic"]
        ELSE [op |-> "new",
              nonce_last_bytes |-> nonce_last_bytes(nonce),
              payload |-> seal_precomputed(r.bytes, nonce, shared_secret)]

\* get_payload that parses the bytes behind the authenticator even when
\* open_precomputed failed
get_payload_unchecked(self, shared_secret, nonce) ==
    LET decrypted == open_precomputed(self.payload, nonce, shared_secret)
        bytes == IF decrypted.ok THEN decrypted.plain
                 ELSE SubSeq(self.payload, MACBYTES + 1, Len(self.payload))
        parsed == CryptoDataPayload_from_bytes(bytes)
    IN  IF ~ parsed.ok
        THEN [ok |-> FALSE,
              err |-> "CryptoDataPayload return deserialize error"]
        ELSE [ok |-> TRUE, payload |-> parsed.payload]

\* CryptoData::get_payload
get_payload(self, shared_secret, nonce) ==
    LET decrypted == open_precomputed(self.payload, nonce, shared_secret)
    IN  IF ~ decrypted.ok
        THEN [ok |-> FALSE, err |-> "CryptoData decrypt error."]
        ELSE LET parsed == CryptoDataPayload_from_bytes(decrypted.plain)
             IN  IF ~ parsed.ok
                 THEN [ok |-> FALSE,
                       err |-> "CryptoDataPayload return deserialize error"]
                 ELSE [ok |-> TRUE, payload |-> parsed.payload]

\* the sender holds a shared secret, a nonce and a payload to send
InitCodec ==
    /\ now = 0
    /\ NodeUnused
    /\ CmpUnused
    /\ sent \in [shared_secret : Keys, nonce : Nonces, payload : Payloads]
    /\ crypto_data = [op |-> "none"]
    /\ got = [op |-> "none"]
    /\ wire = [op |-> "none"]

\* a call CryptoData::new(&shared_secret, nonce, payload)
New ==
    /\ crypto_data' = CryptoData_new(sent.shared_secret, sent.nonce,
                                     sent.payload)
    /\ got' = [op |-> "none"]
    /\ wire' = [op |-> "none"]
    /\ UNCHANGED <<now, nodeVars, cmpVars, sent>>

\* a call crypto_data.get_payload(&shared_secret, &nonce)
GetPayload ==
    /\ crypto_data.op \in {"new", "struct"}
    /\ \E shared_secret \in Keys, nonce \in Nonces :
         got' = [op |-> "get_payload", shared_secret |-> shared_secret,
                 nonce |-> nonce,
                 ret |-> get_payload(crypto_data, shared_secret, nonce)]
    /\ UNCHANGED <<now, nodeVars, cmpVars, sent, crypto_data, wire>>

NextCodec ==
    \/ New
    \/ GetPayload

SpecCodec == InitCodec /\ [][NextCodec]_vars

\* ------------------------------------------------------ CryptoData framing
\* a caller's buffer, long enough that gen_len_limit is what rejects
BufLen == MAX_CRYPTO_PACKET_SIZE + 1

\* CryptoData struct literals (the fields are pub)
TestCryptoData == [op |-> "struct", nonce_last_bytes |-> 42,
                   payload |-> [i \in 1..123 |-> 42]]
CryptoDatas ==
    [op : {"struct"}, nonce_last_bytes : {0, 42, 258, 65535},
     payload : {<<>>, <<1>>, <<27, 27>>, <<0, 255, 7>>}]
      \cup {TestCryptoData}
      \cup {[op |-> "struct", nonce_last_bytes |-> 42,
             payload |-> [i \in 1..n |-> 42]] :
               n \in {MAX_CRYPTO_PACKET_SIZE - 3, MAX_CRYPTO_PACKET_SIZE - 2}}

\* byte strings that arrive from the network
WireInputs ==
    {<<>>, <<27>>, <<27, 1>>, <<27, 1, 2>>, <<27, 0, 42, 9, 9>>,
     <<26, 1, 2, 3>>, <<0>>, <<0, 27, 1, 2>>}
      \cup {[i \in 1..n |-> IF i = 1 THEN t ELSE 42] :
              n \in {MAX_CRYPTO_PACKET_SIZE, MAX_CRYPTO_PACKET_SIZE + 1},
              t \in {27, 26}}

\* encode requests: a small payload, the payload of the tests, the largest
\* that fits the buffer of CryptoData::new and the smallest that does not
FrameRequests ==
    [shared_secret : {11}, nonce : {NonceOf(1, 0, 42)},
     payload : {[buffer_start |-> 0, packet_number |-> 1, data |-> <<>>],
                TestPayload, FullPayload, OverPayload}]

\* gen_be_u16! : two bytes, most significant first
gen_be_u16(v) == << (v \div 256) % 256, v % 256 >>

\* nom be_u16 on the two bytes of b from index i
be_u16(b, i) == b[i] * 256 + b[i + 1]

\* rest_len : the number of bytes of input left
rest_len(b) == Len(b)

\* gen_len_limit : an error when more than limit bytes were written
gen_len_limit(written, limit) == written <= limit

\* impl ToBytes for CryptoData, into a buffer of buf_len bytes
CryptoData_to_bytes(self, buf_len) ==
    LET bytes == <<27>> \o gen_be_u16(self.nonce_last_bytes) \o self.payload
    IN  IF Len(bytes) > buf_len
        THEN [ok |-> FALSE, err |-> "BufferTooSmall"]
        ELSE IF ~ gen_len_limit(Len(bytes), MAX_CRYPTO_PACKET_SIZE)
        THEN [ok |-> FALSE, err |-> "PacketTooLarge"]
        ELSE [ok |-> TRUE, bytes |-> bytes]

\* CryptoData::from_bytes without the verify! of the length
CryptoData_from_bytes_nolimit(b) ==
    IF Len(b) = 0
    THEN [ok |-> FALSE, err |-> "Incomplete"]
    ELSE IF b[1] # 27
    THEN [ok |-> FALSE, err |-> "Error"]
    ELSE IF Len(b) < 3
    THEN [ok |-> FALSE, err |-> "Incomplete"]
    ELSE [ok |-> TRUE,
          value |-> [nonce_last_bytes |-> be_u16(b, 2),
                     payload |-> SubSeq(b, 4, Len(b))]]

\* impl FromBytes for CryptoData : verify! of the length, tag!, be_u16, rest
CryptoData_from_bytes(b) ==
    IF ~ (rest_len(b) <= MAX_CRYPTO_PACKET_SIZE)
    THEN [ok |-> FALSE, err |-> "Error"]
    ELSE IF Len(b) = 0
    THEN [ok |-> FALSE, err |-> "Incomplete"]
    ELSE IF b[1] # 27
    THEN [ok |-> FALSE, err |-> "Error"]
    ELSE IF Len(b) < 3
    THEN [ok |-> FALSE, err |-> "Incomplete"]
    ELSE [ok |-> TRUE,
          value |-> [nonce_last_bytes |-> be_u16(b, 2),
                     payload |-> SubSeq(b, 4, Len(b))]]

\* an encode request is pending, and either nothing else, or a CryptoData
\* written as a struct literal, or bytes received from the network
InitFrame ==
    /\ now = 0
    /\ NodeUnused
    /\ CmpUnused
    /\ sent \in FrameRequests
    /\ got = [op |-> "none"]
    /\ \/ /\ crypto_data = [op |-> "none"]
          /\ wire = [op |-> "none"]
       \/ /\ crypto_data \in CryptoDatas
          /\ wire = [op |-> "none"]
       \/ /\ crypto_data = [op |-> "none"]
          /\ wire \in [op : {"input"}, ret : [ok : {TRUE}, bytes : WireInputs]]

\* a call crypto_data.to_bytes((&mut buf, 0))
ToBytes ==
    /\ crypto_data.op \in {"new", "struct"}
    /\ wire' = [op |-> "to_bytes",
                ret |-> CryptoData_to_bytes(crypto_data, BufLen)]
    /\ got' = [op |-> "none"]
    /\ UNCHANGED <<now, nodeVars, cmpVars, sent, crypto_data>>

\* a call CryptoData::from_bytes(&wire)
FromBytes ==
    /\ wire.op \in {"to_bytes", "input"}
    /\ wire.ret.ok
    /\ got' = [op |-> "from_bytes",
               ret |-> CryptoData_from_bytes(wire.ret.bytes)]
    /\ UNCHANGED <<now, nodeVars, cmpVars, sent, crypto_data, wire>>

NextFrame ==
    \/ New
    \/ ToBytes
    \/ FromBytes

SpecFrame == InitFrame /\ [][NextFrame]_vars

\* ----------------------------------------------- CryptoDataPayload codec
\* the request of the encrypt_decrypt test
TestRequest == [shared_secret |-> 11, nonce |-> NonceOf(1, 0, 42),
                payload |-> TestPayload]

\* plaintexts handed to CryptoDataPayload::from_bytes: empty, shorter than
\* the two u32, exactly the two u32, and longer
PlainInputs ==
    {<<>>, <<1>>, <<0, 0, 48, 57>>, <<0, 0, 48, 57, 0, 0, 212>>,
     <<0, 0, 48, 57, 0, 0, 212, 49>>, <<0, 0, 48, 57, 0, 0, 212, 49, 42>>,
     <<127, 255, 255, 255, 0, 0, 0, 0, 0, 27>>}

\* a CryptoData whose payload is the seal of an arbitrary plaintext, as
\* tests::crypto_data_encrypt_decrypt_invalid builds it
Forged(plain) ==
    [op |-> "struct",
     nonce_last_bytes |-> nonce_last_bytes(TestRequest.nonce),
     payload |-> seal_precomputed(plain, TestRequest.nonce,
                                  TestRequest.shared_secret)]

\* a payload to serialise, or a plaintext to parse, or a sealed plaintext
InitPayload ==
    /\ now = 0
    /\ NodeUnused
    /\ CmpUnused
    /\ got = [op |-> "none"]
    /\ \/ /\ sent \in [shared_secret : {TestRequest.shared_secret},
                       nonce : {TestRequest.nonce}, payload : Payloads]
          /\ crypto_data = [op |-> "none"]
          /\ wire = [op |-> "none"]
       \/ /\ sent = TestRequest
          /\ crypto_data = [op |-> "none"]
          /\ wire \in [op : {"input"}, ret : [ok : {TRUE}, bytes : PlainInputs]]
       \/ /\ sent = TestRequest
          /\ crypto_data \in {Forged(plain) : plain \in PlainInputs}
          /\ wire = [op |-> "none"]

\* a call sent.payload.to_bytes((&mut buf, 0))
PayloadToBytes ==
    /\ wire' = [op |-> "payload_to_bytes",
                ret |-> CryptoDataPayload_to_bytes(sent.payload, BufLen)]
    /\ got' = [op |-> "none"]
    /\ UNCHANGED <<now, nodeVars, cmpVars, sent, crypto_data>>

\* a call CryptoDataPayload::from_bytes(&wire)
PayloadFromBytes ==
    /\ wire.op \in {"payload_to_bytes", "input"}
    /\ wire.ret.ok
    /\ got' = [op |-> "payload_from_bytes",
               ret |-> CryptoDataPayload_from_bytes(wire.ret.bytes)]
    /\ UNCHANGED <<now, nodeVars, cmpVars, sent, crypto_data, wire>>

NextPayload ==
    \/ PayloadToBytes
    \/ PayloadFromBytes
    \/ GetPayload

SpecPayload == InitPayload /\ [][NextPayload]_vars

\* ------------------------------------------------------- DhtNode: claims
\* the ping_hash of the node the last call started from
Before == last.before.ping_hash

\* C1: no replay. Per issuance of an id at most one check_ping_id of it
\* returns true, and once check_ping_id has been called with an id (whatever
\* it returned) every later check_ping_id of that id returns false until
\* the id is issued again.
C1_NoReplay ==
    /\ \A i \in Ids : okCount[i] <= 1
    /\ (last.op = "check_ping_id" /\ last.replay) => last.ret = FALSE

\* C1 witness: an id that validated once is checked a second time
C1_Witness ==
    /\ last.op = "check_ping_id" /\ last.replay
    /\ last.ping_id # 0 /\ okCount[last.ping_id] = 1

\* C2: check_ping_id(0, timeout) returns false and leaves the ping_hash and
\* every other field of the node unchanged, for every store, timeout, clock.
C2_ZeroNeverValidates ==
    (last.op = "check_ping_id" /\ last.ping_id = 0) =>
        (last.ret = FALSE /\ Self = last.before)

\* C2 witness: check_ping_id(0, _) on a non-empty store
C2_Witness ==
    /\ last.op = "check_ping_id" /\ last.ping_id = 0
    /\ DOMAIN ping_hash # {}

\* C3: the id insert_new_ping_id returns is nonzero, was not a key of the
\* store before the call and is a key mapped to the issuance time after it
\* (the store grows by exactly that key); the store never holds the key 0.
C3_FreshNonzeroId ==
    /\ 0 \notin DOMAIN ping_hash
    /\ last.op = "insert_new_ping_id" =>
         /\ last.ret # 0
         /\ last.ret \notin DOMAIN Before
         /\ DOMAIN ping_hash = DOMAIN Before \cup {last.ret}
         /\ ping_hash[last.ret] = last.at
         /\ Cardinality(DOMAIN ping_hash) = Cardinality(DOMAIN Before) + 1

\* C3 witness: a second id is issued while the first is still in the store
C3_Witness ==
    /\ last.op = "insert_new_ping_id"
    /\ Cardinality(DOMAIN ping_hash) = 2

\* C4: for a nonzero id present in the store with issuance time t,
\* check_ping_id at clock value `at` returns true iff at - t <= timeout, and
\* in both cases the id is no longer in the store after the call.
C4_TimeoutDecides ==
    (/\ last.op = "check_ping_id"
     /\ last.ping_id # 0
     /\ last.ping_id \in DOMAIN Before) =>
        /\ last.ret = (last.at - Before[last.ping_id] <= last.timeout)
        /\ last.ping_id \notin DOMAIN ping_hash

\* C4 witness: a correct but late response fails and the id is removed
C4_Witness ==
    /\ last.op = "check_ping_id"
    /\ last.ping_id \in DOMAIN Before
    /\ last.at - Before[last.ping_id] > last.timeout
    /\ last.ret = FALSE
    /\ last.ping_id \notin DOMAIN ping_hash

\* C5: after clear_timedout_pings(timeout) at clock value `at` the store is
\* exactly the prior entries with at - t <= timeout, times unchanged; at that
\* clock value a removed id no longer validates under any timeout and a
\* surviving id still validates under the same timeout.
C5_ExpireExact ==
    last.op = "clear_timedout_pings" =>
        /\ ping_hash =
             [k \in {x \in DOMAIN Before :
                       last.at - Before[x] <= last.timeout} |-> Before[k]]
        /\ \A x \in DOMAIN Before \ DOMAIN ping_hash : \A d \in Timeouts :
             ~ check_ping_id_ret(ping_hash, x, d)
        /\ now = last.at =>
             \A x \in DOMAIN ping_hash :
                check_ping_id_ret(ping_hash, x, last.timeout)

\* C5 witness: an expiry that removes one entry and keeps another
C5_Witness ==
    /\ last.op = "clear_timedout_pings"
    /\ DOMAIN ping_hash # {}
    /\ DOMAIN ping_hash # DOMAIN Before

\* C8: calc_status returns Bad iff now - last_resp_time > bad_node_timeout
\* and Good otherwise, and changes no field of the node.
C8_CalcStatus ==
    last.op = "calc_status" =>
        /\ (last.ret = "Bad") = (last.at - last_resp_time > last.timeout)
        /\ (last.ret = "Good") = (last.at - last_resp_time <= last.timeout)
        /\ Self = last.before

\* C8 witness: the elapsed time equals a positive threshold: Good
C8_Witness ==
    /\ last.op = "calc_status"
    /\ last.timeout > 0
    /\ last.at - last_resp_time = last.timeout
    /\ last.ret = "Good"

\* C9: while last_resp_time is not changed, a node that is Bad under some
\* threshold is still Bad under it after any step (the clock only advances).
C9_StaleStaysStale ==
    [][\A d \in Timeouts :
         (calc_status(Self, d) = "Bad" /\ last_resp_time' = last_resp_time)
            => calc_status(Self, d)' = "Bad"]_vars

\* C9 witness: a node that was already Bad one clock value earlier
C9_Witness ==
    \E d \in Timeouts :
        /\ now - 1 - last_resp_time > d
        /\ calc_status(Self, d) = "Bad"
\* --------------------------------------------------- replace_order: claims
\* Live / Stale of the reference rule
Live(n, d) == now - n.last_resp_time <= d

\* XOR distance from own to k as one big-endian number
RECURSIVE XorNum(_, _, _)
XorNum(own, k, i) ==
    IF i = 0 THEN 0
    ELSE Xor(own[i], k[i]) + 256 * XorNum(own, k, i - 1)

\* the reference rule: liveness first, then ascending XOR distance
RefOrder(a, b, d) ==
    IF Live(a, d) /\ ~ Live(b, d) THEN "Less"
    ELSE IF ~ Live(a, d) /\ Live(b, d) THEN "Greater"
    ELSE Cmp(XorNum(base, a.pk, Len(base)), XorNum(base, b.pk, Len(base)))

\* C6: replace_order equals the reference rule: a Live node orders Less than
\* a Stale one whatever the distances, and two nodes of the same status are
\* ordered by ascending XOR distance from the base key.
C6_ReferenceRule ==
    order.op = "replace_order" =>
        order.ret = RefOrder(nodes[1], nodes[2], order.timeout)

\* C6 witness: a Live node that is farther than a Stale one orders Less
C6_Witness ==
    /\ order.op = "replace_order"
    /\ Live(nodes[1], order.timeout)
    /\ ~ Live(nodes[2], order.timeout)
    /\ XorNum(base, nodes[1].pk, Len(base))
         > XorNum(base, nodes[2].pk, Len(base))
    /\ order.ret = "Less"

Reverse(o) ==
    IF o = "Less" THEN "Greater" ELSE IF o = "Greater" THEN "Less" ELSE o

\* C7: at every clock value, for a fixed base key and threshold,
\* replace_order(a, b) is the reverse of replace_order(b, a), and
\* a < b with b < c gives a < c.
C7_StrictWeakOrder ==
    \A d \in Timeouts : \A i \in CmpSlots, j \in CmpSlots, k \in CmpSlots :
        LET ro(x, y) == replace_order(base, nodes[x], nodes[y], d) IN
        /\ ro(i, j) = Reverse(ro(j, i))
        /\ (ro(i, j) = "Less" /\ ro(j, k) = "Less") => ro(i, k) = "Less"

\* C7 witness: the ends of a chain a < b < c that mixes both rules (a, b
\* Live and ordered by distance, c Stale) have been compared
C7_Witness ==
    /\ order.op = "replace_order"
    /\ Live(nodes[1], order.timeout)
    /\ Live(nodes[3], order.timeout)
    /\ ~ Live(nodes[2], order.timeout)
    /\ replace_order(base, nodes[1], nodes[3], order.timeout) = "Less"
    /\ replace_order(base, nodes[3], nodes[2], order.timeout) = "Less"
    /\ order.ret = "Less"
\* ------------------------------------------------------ CryptoData: claims
\* C10: sealed round trip. Whenever CryptoData::new produced a packet from
\* payload p under nonce n and key k, get_payload with the same n and k
\* returns Ok with buffer_start, packet_number and data equal to those of p.
C10_SealedRoundTrip ==
    (/\ crypto_data.op = "new"
     /\ got.op = "get_payload"
     /\ got.shared_secret = sent.shared_secret
     /\ got.nonce = sent.nonce) =>
        /\ got.ret.ok
        /\ got.ret.payload.buffer_start = sent.payload.buffer_start
        /\ got.ret.payload.packet_number = sent.payload.packet_number
        /\ got.ret.payload.data = sent.payload.data

\* C10 witness: the payload of the repository's test has made the round trip
C10_Witness ==
    /\ crypto_data.op = "new"
    /\ got.op = "get_payload"
    /\ got.shared_secret = sent.shared_secret
    /\ got.nonce = sent.nonce
    /\ sent.payload = TestPayload
    /\ got.ret.ok
    /\ got.ret.payload = sent.payload
\* C11: a packet built by CryptoData::new under key k and nonce n, opened
\* with another key or another full nonce (also one with the same last two
\* bytes), gives the decrypt error and never a parsed payload.
C11_WrongKeyOrNonceFails ==
    (/\ crypto_data.op = "new"
     /\ got.op = "get_payload"
     /\ \/ got.shared_secret # sent.shared_secret
        \/ got.nonce # sent.nonce) =>
        /\ ~ got.ret.ok
        /\ got.ret.err = "CryptoData decrypt error."

\* C11 witness: the right key with a nonce that differs from the sender's
\* only in its first byte, so nonce_last_bytes on the wire is the same
C11_Witness ==
    /\ crypto_data.op = "new"
    /\ got.op = "get_payload"
    /\ got.shared_secret = sent.shared_secret
    /\ got.nonce # sent.nonce
    /\ nonce_last_bytes(got.nonce) = crypto_data.nonce_last_bytes
    /\ sent.payload = TestPayload
    /\ ~ got.ret.ok
\* the first i bytes of nonce n as a big-endian number, modulo 2^16
RECURSIVE NonceLow16(_, _)
NonceLow16(n, i) ==
    IF i = 0 THEN 0 ELSE (NonceLow16(n, i - 1) * 256 + n[i]) % 65536

\* C16: the nonce_last_bytes of the packet CryptoData::new builds is the
\* low-order 16 bits of the full nonce, 256 * (second-to-last byte) + (last
\* byte); the packet carries that field and the ciphertext and nothing else
\* of the nonce.
C16_NonceSuffix ==
    crypto_data.op = "new" =>
        /\ crypto_data.nonce_last_bytes = NonceLow16(sent.nonce, NONCEBYTES)
        /\ crypto_data.nonce_last_bytes =
             256 * sent.nonce[NONCEBYTES - 1] + sent.nonce[NONCEBYTES]
        /\ DOMAIN crypto_data = {"op", "nonce_last_bytes", "payload"}

\* C16 witness: a packet for a nonce whose last two bytes differ and whose
\* first byte is not zero
C16_Witness ==
    /\ crypto_data.op = "new"
    /\ sent.nonce[1] # 0
    /\ sent.nonce[NONCEBYTES - 1] # sent.nonce[NONCEBYTES]
    /\ crypto_data.nonce_last_bytes = 42
\* ---------------------------------------------- CryptoData framing: claims
\* the size of the packet an encode request asks for: tag, two nonce bytes,
\* authenticator, two u32 and the data
RequestSize(payload) == 3 + MACBYTES + 8 + Len(payload.data)

\* C12: encoding fails with PacketTooLarge whenever the encoded size
\* exceeds MAX_CRYPTO_PACKET_SIZE and succeeds whenever it does not; no
\* longer packet is ever written.
C12_PacketTooLarge ==
    /\ crypto_data.op \in {"new", "panic"} =>
         /\ crypto_data.op = "new"
         /\ wire.op = "to_bytes" =>
              IF RequestSize(sent.payload) > MAX_CRYPTO_PACKET_SIZE
              THEN ~ wire.ret.ok /\ wire.ret.err = "PacketTooLarge"
              ELSE wire.ret.ok
    /\ (wire.op = "to_bytes" /\ wire.ret.ok) =>
         Len(wire.ret.bytes) <= MAX_CRYPTO_PACKET_SIZE

\* C13: CryptoData::from_bytes fails exactly when the input is longer than
\* MAX_CRYPTO_PACKET_SIZE, or does not start with 0x1b (a nom Error), or is
\* shorter than 3 bytes; otherwise nonce_last_bytes is bytes 2..3 big-endian
\* and payload is every byte after them, and the bytes to_bytes wrote decode
\* to the packet they were written from.
C13_FrameDecode ==
    got.op = "from_bytes" =>
        LET b == wire.ret.bytes IN
        /\ got.ret.ok =
             ~ (\/ Len(b) > MAX_CRYPTO_PACKET_SIZE
                \/ Len(b) < 3
                \/ b[1] # 27)
        /\ (Len(b) \in 1..MAX_CRYPTO_PACKET_SIZE /\ b[1] # 27)
              => got.ret.err = "Error"
        /\ got.ret.ok =>
             /\ got.ret.value.nonce_last_bytes = 256 * b[2] + b[3]
             /\ got.ret.value.payload = [i \in 1..(Len(b) - 3) |-> b[i + 3]]
        /\ wire.op = "to_bytes" =>
             /\ got.ret.ok
             /\ got.ret.value.nonce_last_bytes = crypto_data.nonce_last_bytes
             /\ got.ret.value.payload = crypto_data.payload

\* C13 witness: the packet of the encode_decode test went through to_bytes
\* and from_bytes
C13_Witness ==
    /\ crypto_data = TestCryptoData
    /\ wire.op = "to_bytes"
    /\ got.op = "from_bytes"
    /\ got.ret.ok
    /\ got.ret.value.payload = TestCryptoData.payload
\* ----------------------------------------------- CryptoDataPayload: claims
\* the big-endian number in the four bytes of b from index i
BigEndian32(b, i) ==
    b[i] * 16777216 + b[i + 1] * 65536 + b[i + 2] * 256 + b[i + 3]

\* C14: to_bytes writes buffer_start as 4 big-endian bytes, packet_number
\* as 4 big-endian bytes and then data verbatim, and from_bytes of these
\* bytes returns the payload that was written, the empty data included.
C14_PayloadRoundTrip ==
    /\ wire.op = "payload_to_bytes" =>
         /\ wire.ret.ok
         /\ Len(wire.ret.bytes) = 8 + Len(sent.payload.data)
         /\ BigEndian32(wire.ret.bytes, 1) = sent.payload.buffer_start
         /\ BigEndian32(wire.ret.bytes, 5) = sent.payload.packet_number
         /\ \A i \in 1..Len(sent.payload.data) :
              wire.ret.bytes[8 + i] = sent.payload.data[i]
    /\ (wire.op = "payload_to_bytes" /\ got.op = "payload_from_bytes") =>
         /\ got.ret.ok
         /\ got.ret.payload = sent.payload

\* C14 witness: a payload without data went through to_bytes and
\* from_bytes
C14_Witness ==
    /\ wire.op = "payload_to_bytes"
    /\ got.op = "payload_from_bytes"
    /\ got.ret.ok
    /\ sent.payload.buffer_start = 12345
    /\ sent.payload.packet_number = 54321
    /\ sent.payload.data = <<>>

\* C15: CryptoDataPayload::from_bytes fails exactly when fewer than 8
\* bytes are available; 8 bytes give empty data; and get_payload on a
\* correctly authenticated packet whose plaintext is shorter than 8 bytes
\* returns the deserialize error, never a payload.
C15_TruncatedPayload ==
    /\ got.op = "payload_from_bytes" =>
         /\ got.ret.ok = (Len(wire.ret.bytes) >= 8)
         /\ ~ got.ret.ok => got.ret.err = "Incomplete"
         /\ Len(wire.ret.bytes) = 8 => got.ret.payload.data = <<>>
    /\ got.op = "get_payload" =>
         LET opened == open_precomputed(crypto_data.payload, got.nonce,
                                        got.shared_secret)
         IN  opened.ok =>
               /\ got.ret.ok = (Len(opened.plain) >= 8)
               /\ ~ got.ret.ok =>
                    got.ret.err = "CryptoDataPayload return deserialize error"

\* C15 witness: the sealed empty plaintext was opened with the right key
\* and nonce and gave the deserialize error
C15_Witness ==
    /\ crypto_data = Forged(<<>>)
    /\ got.op = "get_payload"
    /\ got.shared_secret = TestRequest.shared_secret
    /\ got.nonce = TestRequest.nonce
    /\ ~ got.ret.ok
    /\ got.ret.err = "CryptoDataPayload return deserialize error"
\* --------------------------------------------- DhtNode: issuance and frame
\* C17 as stated: after insert_new_ping_id, last_ping_req_time is the
\* clock value at which the ping_id was issued.
C17_IssuanceStampsRequestTime ==
    last.op = "insert_new_ping_id" => last_ping_req_time = last.at

\* C17 as amended: insert_new_ping_id leaves last_ping_req_time as it was;
\* the clock value of the issuance is recorded only as the value stored in
\* ping_hash for the ping_id it returned.
C17_IssuanceKeepsRequestTime ==
    last.op = "insert_new_ping_id" =>
        /\ last_ping_req_time = last.before.last_ping_req_time
        /\ last.ret \in DOMAIN ping_hash
        /\ ping_hash[last.ret] = last.at

\* C17 witness: a ping_id was issued after the clock had advanced, and
\* last_ping_req_time is still an earlier time
C17_Witness ==
    /\ last.op = "insert_new_ping_id"
    /\ last.at > 0
    /\ last_ping_req_time < last.at
    /\ ping_hash[last.ret] = last.at
\* C19: check_ping_id(X, timeout) returns the same boolean when
\* clear_timedout_pings(timeout) ran immediately before it at the same
\* clock value as it would have returned on the map before that call.
C19_ExpiryRedundant ==
    (last.op = "check_ping_id" /\ last.after_clear) =>
        last.ret = (/\ last.ping_id # 0
                    /\ last.ping_id \in DOMAIN last.uncleared
                    /\ last.at - last.uncleared[last.ping_id]
                          <= last.timeout)

\* C19 witness: clear_timedout_pings dropped the entry of an id and
\* check_ping_id of that id followed at the same clock value
C19_Witness ==
    /\ last.op = "check_ping_id"
    /\ last.after_clear
    /\ last.ping_id \in DOMAIN last.uncleared
    /\ last.ping_id \notin DOMAIN last.before.ping_hash
    /\ ~ last.ret

\* C20: check_ping_id(X, timeout) changes at most the entry of X (with X
\* nonzero and absent the map is unchanged and the result false);
\* insert_new_ping_id only adds the entry it returns; and none of the
\* three operations changes pk, saddr or last_resp_time.
C20_Frame ==
    /\ last.op = "check_ping_id" =>
         /\ DOMAIN ping_hash \subseteq DOMAIN Before
         /\ \A id \in DOMAIN Before \ {last.ping_id} :
              id \in DOMAIN ping_hash /\ ping_hash[id] = Before[id]
         /\ (last.ping_id # 0 /\ last.ping_id \notin DOMAIN Before) =>
              ping_hash = Before /\ ~ last.ret
    /\ last.op = "insert_new_ping_id" =>
         /\ last.ret \notin DOMAIN Before
         /\ DOMAIN ping_hash = DOMAIN Before \cup {last.ret}
         /\ \A id \in DOMAIN Before : ping_hash[id] = Before[id]
    /\ last.op \in {"check_ping_id", "insert_new_ping_id",
                    "clear_timedout_pings"} =>
         /\ pk = last.before.pk
         /\ saddr = last.before.saddr
         /\ last_resp_time = last.before.last_resp_time

\* C20 witness: check_ping_id removed one of two entries and the other is
\* still there with its time
C20_Witness ==
    /\ last.op = "check_ping_id"
    /\ last.ping_id \in DOMAIN Before
    /\ \E id \in DOMAIN ping_hash :
         id # last.ping_id /\ ping_hash[id] = Before[id]
\* C18: insert_new_ping_id has no failure path and terminates: whenever
\* the loop of generate_ping_id runs and some nonzero id is not a key of
\* ping_hash, it eventually returns; and what it returns is never 0 and
\* never an id that was a key of ping_hash.
C18_IssuanceTerminates ==
    /\ [](last.op = "insert_new_ping_id" =>
            /\ last.ret \in Ids \ {0}
            /\ last.ret \notin DOMAIN Before)
    /\ (/\ pc = "generate_ping_id"
        /\ \E id \in Ids \ {0} : id \notin DOMAIN ping_hash)
          ~> (pc = "idle" /\ last.op = "insert_new_ping_id")

\* C18 witness: a draw was rejected while a nonzero id is still free and
\* another one is taken
C18_Witness ==
    /\ pc = "generate_ping_id"
    /\ \E id \in Ids \ {0} : id \notin DOMAIN ping_hash
    /\ \E id \in Ids \ {0} : id \in DOMAIN ping_hash
====
